---- MODULE Spec2Model ----
(***************************************************************************)
(* Invoice calculation engine of the elevator invoice bot.                 *)
(*                                                                         *)
(* The catalog is the `products` table (src/db/database.py), a request is  *)
(* (floors, system_type), and calculate_invoice (src/logic/calculator.py)  *)
(* turns the applicable rows into an itemised invoice.                     *)
(*                                                                         *)
(* Numbers.  factor and base_add are REAL columns and a quantity is a      *)
(* Python float.  Every real number of the model is an integer count of    *)
(* 1/Den units (Den a power of two), so 1.0 is Den and 0.75 is 3 when      *)
(* Den = 4.  Such values, multiplied by the small floor counts and prices  *)
(* used here, are exactly representable as IEEE doubles, so the float      *)
(* arithmetic of the code is exact on them.  price, floors, stops_offset,  *)
(* min_floors, max_floors and every total are plain integers.              *)
(*                                                                         *)
(* NULL.  A nullable column holds None (the empty tuple) or <<v>>.         *)
(***************************************************************************)
EXTENDS Integers, Sequences, FiniteSets, TLC

\* ---------------------------------------------------------------- bounds
MaxFloors == 5      \* requests use floors 1..MaxFloors
MaxRules  == 2      \* rows of a multi-row catalog
Den       == 4      \* a real number r is the integer r * Den

\* ------------------------------------------------------- values and rows
None == << >>
Some(v) == << v >>

\* Exceptions: an operation returns Ret(v) or raises.
Ret(v)   == [exc |-> "", val |-> v]
Raise(e) == [exc |-> e, val |-> 0]

\* A name_pattern is the token sequence string.Template's pattern cuts it
\* into: literal text, $name, ${name}, $$ and a lone invalid $.
Lit(s)     == [kind |-> "literal", text |-> s, key |-> ""]
Named(k)   == [kind |-> "named",   text |-> "$" \o k, key |-> k]
Braced(k)  == [kind |-> "braced",  text |-> "${" \o k \o "}", key |-> k]
Escaped    == [kind |-> "escaped", text |-> "$$", key |-> ""]
Invalid    == [kind |-> "invalid", text |-> "$", key |-> ""]

Kinds == {"fixed", "linear", "dynamic_name", "percent"}
Systems == {"hydraulic", "gearless", "common"}
RequestSystems == {"hydraulic", "gearless"}
Floors == 1 .. MaxFloors

\* factor: unset, -0.75, 0, 0.5, 4, 80;  base_add: unset, -1.25, 0, 5
FactorVals  == {None, Some(-3), Some(0), Some(2), Some(4 * Den), Some(80 * Den)}
BaseAddVals == {None, Some(-5), Some(0), Some(5 * Den)}
Prices      == {0, 3, 50000}
Patterns    == {None, Some(<< >>),
                Some(<<Lit("X "), Braced("stops"), Lit(" stops")>>),
                Some(<<Named("N"), Lit("/"), Braced("floor"), Invalid>>),
                Some(<<Named("floors"), Lit(" of "), Named("N"), Lit(" to "),
                       Braced("stops"), Escaped>>)}
Offsets     == {None, Some(1)}

\* Rows that exercise the rule evaluator: every kind with every factor,
\* base_add, price, pattern and offset; always applicable.
EvalRows ==
    [name : {"rail"}, unit : {"m"}, price : Prices, system : {"common"},
     type : Kinds, factor : FactorVals, base_add : BaseAddVals,
     name_pattern : Patterns, stops_offset : Offsets,
     is_active : {1}, min_floors : {None}, max_floors : {None}]

\* Rows that exercise the catalog query: every system, activity and floor
\* range on one product, and a second product whose optional columns are
\* unset, of a known, an unknown and the dynamic_name kind.
CalcRows ==
    [name : {"cable"}, unit : {"m"}, price : {3}, system : Systems,
     type : {"linear"}, factor : {Some(6)}, base_add : {Some(-1)},
     name_pattern : {None}, stops_offset : {Some(0)},
     is_active : {0, 1}, min_floors : {None, Some(2)},
     max_floors : {None, Some(2)}]
    \cup
    [name : {"jack"}, unit : {"pc"}, price : {7}, system : {"common", "hydraulic"},
     type : {"fixed", "percent", "dynamic_name"}, factor : {None},
     base_add : {None},
     name_pattern : {Some(<<Named("N"), Lit("/"), Braced("floor"), Invalid>>)},
     stops_offset : {None},
     is_active : {1}, min_floors : {None}, max_floors : {None}]

\* id INTEGER PRIMARY KEY AUTOINCREMENT: the i-th inserted row has id i.
WithIds(rows) == [i \in DOMAIN rows |-> [id |-> i] @@ rows[i]]

SeqsUpTo(S, n) == UNION {[1 .. k -> S] : k \in 0 .. n}

Catalogs ==
    {WithIds(<<r>>) : r \in EvalRows}
    \cup {WithIds(rows) : rows \in SeqsUpTo(CalcRows, MaxRules)}

VARIABLES
    products,     \* the products table, in rowid order
    floors,       \* argument of the last calculate_invoice call (0: none yet)
    system_type,  \* argument of the last calculate_invoice call
    fetched,      \* the rows get_products returned to that call
    result,       \* what that call returned or raised
    checked,      \* the last validate_floors call: its argument and result
    conv,         \* invoice conversation state of each chat of the user
    user_data,    \* context.user_data of the user, shared by the chats
    invoices,     \* the invoices table, in rowid order
    invoice_items, \* the invoice_items table, in rowid order
    ev,           \* the update handled last: handler, reply, calculator call
    calc,         \* calculations running side by side, one per worker
    admin_conv    \* admin conversation state of each user

vars == <<products, floors, system_type, fetched, result, checked, conv,
          user_data, invoices, invoice_items, ev, calc, admin_conv>>

\* ---------------------------------------------------------- get_products
\* The query with an exclusive lower floor bound.
MatchesQueryExclusiveMin(p, sys, active, n) ==
    /\ p.is_active = active
    /\ (p.system = sys \/ p.system = "common")
    /\ (p.min_floors = None \/ p.min_floors[1] < n)
    /\ (p.max_floors = None \/ p.max_floors[1] >= n)

\* SELECT * FROM products WHERE is_active = ? AND (system = ? OR system =
\* 'common') AND (min_floors IS NULL OR min_floors <= ?) AND (max_floors IS
\* NULL OR max_floors >= ?); a table scan, rows come in rowid order.
MatchesQuery(p, sys, active, n) ==
    /\ p.is_active = active
    /\ (p.system = sys \/ p.system = "common")
    /\ (p.min_floors = None \/ p.min_floors[1] <= n)
    /\ (p.max_floors = None \/ p.max_floors[1] >= n)

get_products(table, sys, active, n) ==
    SelectSeq(table, LAMBDA p : MatchesQuery(p, sys, active, n))

\* ------------------------------------------------------ rule evaluator
\* The column read without `or 0`.
OrZeroMissing(x) == x

\* Python's `x or 0`: None and 0 give 0, any other number gives itself.
OrZero(x) == IF x = None \/ x = Some(0) THEN Some(0) ELSE x

\* The linear formula without its offset.
LinearQuantityNoBase(factor, n, base_add) ==
    IF factor = None \/ base_add = None
    THEN Raise("TypeError")
    ELSE Ret(factor[1] * n)

\* `factor * floors + base_add` (calculator.py lines 92 and 98); arithmetic
\* on None raises TypeError.
LinearQuantity(factor, n, base_add) ==
    IF factor = None \/ base_add = None
    THEN Raise("TypeError")
    ELSE Ret(factor[1] * n + base_add[1])

\* kind fixed without the default of 1.0.
FixedQuantityNoDefault(factor) ==
    IF factor = None THEN Raise("TypeError") ELSE Ret(factor[1])

\* kind fixed: `factor if factor > 0 else 1.0`; `>` on None raises TypeError.
FixedQuantity(factor) ==
    IF factor = None THEN Raise("TypeError")
    ELSE Ret(IF factor[1] > 0 THEN factor[1] ELSE Den)

\* kind dynamic_name computed as kind linear whatever the factor.
DynamicQuantityAlwaysLinear(factor, n, base_add) ==
    LinearQuantity(factor, n, base_add)

\* kind dynamic_name with the quantity always 1.0.
DynamicQuantityAlwaysOne(factor, n, base_add) == Ret(Den)

\* kind dynamic_name: linear when factor > 0, else 1.0.
DynamicQuantity(factor, n, base_add) ==
    IF factor = None THEN Raise("TypeError")
    ELSE IF factor[1] > 0
         THEN LinearQuantity(factor, n, base_add)
         ELSE Ret(Den)

\* An unknown kind rejected.
DefaultQuantityRaises == Raise("ValueError")

\* any other kind: 1.0.
DefaultQuantity == Ret(Den)

\* InvoiceCalculator._calculate_quantity; the result is in 1/Den units.
_calculate_quantity(product, n) ==
    LET product_type == product.type
        factor == OrZero(product.factor)
        base_add == OrZero(product.base_add)
    IN  CASE product_type = "fixed" -> FixedQuantity(factor)
          [] product_type = "linear" -> LinearQuantity(factor, n, base_add)
          [] product_type = "dynamic_name" ->
               DynamicQuantity(factor, n, base_add)
          [] OTHER -> DefaultQuantity

\* convert() with an unknown key dropped from the output.
ConvertDropUnknown(tok, mapping) ==
    CASE tok.kind \in {"named", "braced"} ->
           IF tok.key \in DOMAIN mapping
           THEN ToString(mapping[tok.key])
           ELSE ""
      [] tok.kind = "escaped" -> "$"
      [] OTHER -> tok.text

\* string.Template.safe_substitute's convert(): a known key becomes
\* str(value), an unknown key and an invalid $ stay as written, $$ is $.
Convert(tok, mapping) ==
    CASE tok.kind \in {"named", "braced"} ->
           IF tok.key \in DOMAIN mapping
           THEN ToString(mapping[tok.key])
           ELSE tok.text
      [] tok.kind = "escaped" -> "$"
      [] OTHER -> tok.text

RECURSIVE safe_substitute(_, _)
safe_substitute(template, mapping) ==
    IF template = << >> THEN ""
    ELSE Convert(Head(template), mapping)
         \o safe_substitute(Tail(template), mapping)

\* A str is truthy when it is neither None nor empty.
Truthy(s) == s # None /\ s # Some(<< >>)

\* template.substitute(...): an unknown key raises KeyError, an invalid $
\* raises ValueError.
StrictSubstitute(template, mapping) ==
    IF \E i \in DOMAIN template :
          /\ template[i].kind \in {"named", "braced"}
          /\ template[i].key \notin DOMAIN mapping
    THEN Raise("KeyError")
    ELSE IF \E i \in DOMAIN template : template[i].kind = "invalid"
         THEN Raise("ValueError")
         ELSE Ret(safe_substitute(template, mapping))

\* The call template.safe_substitute(...) inside the try block: on a str
\* pattern it raises nothing.
TrySubstitute(template, mapping) == Ret(safe_substitute(template, mapping))

\* _get_final_name with the offset left out of stops.
_get_final_name_no_offset(product, n) ==
    IF product.type = "dynamic_name" /\ Truthy(product.name_pattern)
    THEN LET final_name == TrySubstitute(product.name_pattern[1],
                              [stops |-> n, floors |-> n, N |-> n])
         IN  IF final_name.exc = "" THEN final_name ELSE Ret(product.name)
    ELSE Ret(product.name)

\* InvoiceCalculator._get_final_name.  `floors + stops_offset` is outside
\* the try block; an exception of the substitution falls back to the name.
_get_final_name(product, n) ==
    IF product.type = "dynamic_name" /\ Truthy(product.name_pattern)
    THEN LET stops_offset == OrZero(product.stops_offset)
         IN  IF stops_offset = None THEN Raise("TypeError")
             ELSE LET actual_stops == n + stops_offset[1]
                      final_name ==
                          TrySubstitute(product.name_pattern[1],
                              [stops |-> actual_stops, floors |-> n, N |-> n])
                  IN  IF final_name.exc = "" THEN final_name
                      ELSE Ret(product.name)
    ELSE Ret(product.name)

\* int(x) of a float: truncation toward zero (x in 1/Den units).
PyInt(x) == IF x >= 0 THEN x \div Den ELSE -((-x) \div Den)

\* The item total rounded down (math.floor) instead of int().
ItemTotalFloor(quantity, price) == (quantity * price) \div Den

\* `item_total = int(quantity * product['price'])`
ItemTotal(quantity, price) == PyInt(quantity * price)

\* One Invoice Line Item (calculator.py, the dict built in the loop).
Item(product, quantity, final_name) ==
    [product_id  |-> product.id,
     name        |-> final_name,
     unit        |-> product.unit,
     quantity    |-> quantity,
     unit_price  |-> product.price,
     total_price |-> ItemTotal(quantity, product.price)]

\* `total_price = item_total`
AccumulateOverwrite(total_price, item_total) == item_total

\* `items.insert(0, item)`
AddItemFront(items, item) == <<item>> \o items

\* `items.append(item)`
AddItem(items, item) == Append(items, item)

\* `total_price += item_total`
Accumulate(total_price, item_total) == total_price + item_total

\* The for loop of calculate_invoice from row i on; an exception raised by
\* the evaluator leaves the function.
RECURSIVE InvoiceLoop(_, _, _, _, _)
InvoiceLoop(rows, i, n, items, total_price) ==
    IF i > Len(rows)
    THEN Ret([items |-> items, total_price |-> total_price])
    ELSE LET product == rows[i]
             quantity == _calculate_quantity(product, n)
             final_name == _get_final_name(product, n)
         IN  IF quantity.exc # "" THEN quantity
             ELSE IF final_name.exc # "" THEN final_name
             ELSE LET item == Item(product, quantity.val, final_name.val)
                  IN  InvoiceLoop(rows, i + 1, n, AddItem(items, item),
                                  Accumulate(total_price, item.total_price))

\* The item list carried over from the call before.
StartItemsKept == IF result.exc = "" THEN result.val.items ELSE << >>

\* items = [] at the start of every call
StartItems == << >>

\* calculate_invoice with an empty catalog answer treated as a failure.
calculate_invoice_no_empty(rows, n) ==
    IF rows = << >> THEN Raise("NoApplicableRules")
    ELSE InvoiceLoop(rows, 1, n, StartItems, 0)

\* InvoiceCalculator.calculate_invoice on the rows the catalog returned.
calculate_invoice(rows, n) == InvoiceLoop(rows, 1, n, StartItems, 0)

\* ----------------------------------------------------------- validation
\* A Python value handed to validate_floors: its type and, for a number,
\* its value (a float's value in 1/Den units).
IntVal(n) == [type |-> "int", v |-> n]
OtherVals ==
    {[type |-> "float", v |-> 5 * Den], [type |-> "float", v |-> 2 * Den + 1],
     [type |-> "str", v |-> 5], [type |-> "NoneType", v |-> 0],
     [type |-> "bool", v |-> 0], [type |-> "bool", v |-> 1]}

\* isinstance(x, int): bool is a subclass of int.
IsInstanceInt(x) == x.type \in {"int", "bool"}

MinValidFloors == 1
MaxValidFloors == 100
Margin == 3      \* integers tried below and above the accepted range

FloorArgs ==
    {IntVal(n) : n \in MinValidFloors - Margin .. MaxValidFloors + Margin}
    \cup OtherVals

\* validate_floors accepting every integer.
validate_floors_open(x) ==
    IF ~IsInstanceInt(x) THEN <<FALSE, "must be an integer">>
    ELSE <<TRUE, "">>

\* validate_floors with the upper limit itself rejected.
validate_floors_exclusive(x) ==
    IF ~IsInstanceInt(x) THEN <<FALSE, "must be an integer">>
    ELSE IF x.v < MinValidFloors THEN <<FALSE, "must be at least 1">>
    ELSE IF x.v >= MaxValidFloors THEN <<FALSE, "cannot exceed 100">>
    ELSE <<TRUE, "">>

\* InvoiceCalculator.validate_floors: (is_valid, error_message).
validate_floors(x) ==
    IF ~IsInstanceInt(x) THEN <<FALSE, "must be an integer">>
    ELSE IF x.v < MinValidFloors THEN <<FALSE, "must be at least 1">>
    ELSE IF x.v > MaxValidFloors THEN <<FALSE, "cannot exceed 100">>
    ELSE <<TRUE, "">>

NoCheck == [arg |-> [type |-> "NoneType", v |-> 0], out |-> <<FALSE, "NoCall">>]

\* ------------------------------------------------------------- behaviour
NoResult == [exc |-> "NoCall", val |-> 0]

Chats == {"private", "group"}
Workers == {"w1", "w2"}
\* Telegram user ids: the first is listed in ADMIN_CHAT_IDS, the second
\* is not.
Users == {11, 22}
EmptyUserData ==
    [customer_name |-> None, project_name |-> None, system_type |-> None,
     system_text |-> None, floors |-> None, calculation_result |-> None,
     edit_product |-> None]
NoEvent == [handler |-> "", reply |-> "", call |-> None]
IdleWorker == [pc |-> "idle"]

\* Nothing called, no conversation, empty invoice store.
InitCalculator ==
    /\ floors = 0
    /\ system_type = ""
    /\ fetched = << >>
    /\ result = NoResult

InitValidation == checked = NoCheck

InitBot ==
    /\ conv = [c \in Chats |-> "END"]
    /\ user_data = EmptyUserData
    /\ invoices = << >>
    /\ invoice_items = << >>
    /\ ev = NoEvent
    /\ admin_conv = [u \in Users |-> "END"]

InitWorkers == calc = [w \in Workers |-> IdleWorker]

Init ==
    /\ products \in Catalogs
    /\ InitCalculator
    /\ InitValidation
    /\ InitBot
    /\ InitWorkers

\* A call calculate_invoice(n, sys): one catalog read, then the loop.
CalculateInvoice(n, sys) ==
    LET rows == get_products(products, sys, 1, n)
    IN  /\ floors' = n
        /\ system_type' = sys
        /\ fetched' = rows
        /\ result' = calculate_invoice(rows, n)
        /\ UNCHANGED <<products, checked, conv, user_data, invoices,
                       invoice_items, ev, calc, admin_conv>>

Next == \E n \in Floors, sys \in RequestSystems : CalculateInvoice(n, sys)

Spec == Init /\ [][Next]_vars

\* ---- validate_floors as a function of its argument
InitValidate ==
    /\ products = << >>
    /\ InitCalculator
    /\ InitValidation
    /\ InitBot
    /\ InitWorkers

ValidateFloors(x) ==
    /\ checked' = [arg |-> x, out |-> validate_floors(x)]
    /\ UNCHANGED <<products, floors, system_type, fetched, result, conv,
                   user_data, invoices, invoice_items, ev, calc, admin_conv>>

NextValidate == \E x \in FloorArgs : ValidateFloors(x)

SpecValidate == InitValidate /\ [][NextValidate]_vars

\* ------------------------------------------------- invoice conversation
\* Message texts.  "hidrolik" and "girles" stand for the two keyboard
\* buttons of the system type question (Persian in the source).
NameTexts    == {"Ali"}
ProjectTexts == {"Tower"}
Texts == {"hidrolik", "girles", "0", "1 ", "2", "101"}

MaxInvoices == 1     \* rows the invoices table may hold

\* text.strip() on the texts above
Strip(t) == IF t = "1 " THEN "1" ELSE t

\* int(text): the integer whose decimal form the stripped text is, or
\* ValueError.
ParseRange == MinValidFloors - Margin .. MaxValidFloors + Margin
ParseInt(t) ==
    IF \E k \in ParseRange : ToString(k) = Strip(t)
    THEN Ret(CHOOSE k \in ParseRange : ToString(k) = Strip(t))
    ELSE Raise("ValueError")

\* int(text) of every message text
IntOfText == [t \in Texts |-> ParseInt(t)]

\* The system type question with any text stored as it is.
system_map_open(t) ==
    IF t = "hidrolik" THEN Some("hydraulic")
    ELSE IF t = "girles" THEN Some("gearless")
    ELSE Some(t)

\* system_map of BotHandlers.system_type; None: the text is not a key.
system_map(t) ==
    IF t = "hidrolik" THEN Some("hydraulic")
    ELSE IF t = "girles" THEN Some("gearless")
    ELSE None

\* The catalog of the conversations: a common rule from floors 2 on and a
\* hydraulic rule, so that nothing applies to (1, gearless).
RowCable ==
    [name |-> "cable", unit |-> "m", price |-> 3, system |-> "common",
     type |-> "linear", factor |-> Some(6), base_add |-> Some(-1),
     name_pattern |-> None, stops_offset |-> Some(0),
     is_active |-> 1, min_floors |-> Some(2), max_floors |-> None]
RowJack ==
    [name |-> "jack", unit |-> "pc", price |-> 7, system |-> "hydraulic",
     type |-> "fixed", factor |-> None, base_add |-> None,
     name_pattern |-> None, stops_offset |-> None,
     is_active |-> 1, min_floors |-> None, max_floors |-> None]
ConvCatalogs == {WithIds(<<RowCable, RowJack>>)}

\* What the last update did: the handler that took it, its reply and the
\* call of calculate_invoice it made, if any.
Event(h, r, call) == [handler |-> h, reply |-> r, call |-> call]

CalcVars == <<floors, system_type, fetched, result>>
StoreVars == <<invoices, invoice_items>>

\* BotHandlers.start, the entry point: taken when the chat has no
\* conversation.
Start(c) ==
    /\ conv[c] = "END"
    /\ conv' = [conv EXCEPT ![c] = "CUSTOMER_NAME"]
    /\ ev' = Event("start", "ask_customer_name", None)
    /\ UNCHANGED <<products, CalcVars, checked, user_data, StoreVars, calc, admin_conv>>

\* BotHandlers.customer_name
CustomerName(c, t) ==
    /\ conv[c] = "CUSTOMER_NAME"
    /\ user_data' = [user_data EXCEPT !.customer_name = Some(t)]
    /\ conv' = [conv EXCEPT ![c] = "PROJECT_NAME"]
    /\ ev' = Event("customer_name", "ask_project_name", None)
    /\ UNCHANGED <<products, CalcVars, checked, StoreVars, calc, admin_conv>>

\* BotHandlers.project_name
ProjectName(c, t) ==
    /\ conv[c] = "PROJECT_NAME"
    /\ user_data' = [user_data EXCEPT !.project_name = Some(t)]
    /\ conv' = [conv EXCEPT ![c] = "SYSTEM_TYPE"]
    /\ ev' = Event("project_name", "ask_system_type", None)
    /\ UNCHANGED <<products, CalcVars, checked, StoreVars, calc, admin_conv>>

\* BotHandlers.system_type
SystemType(c, t) ==
    /\ conv[c] = "SYSTEM_TYPE"
    /\ IF system_map(t) = None
       THEN /\ ev' = Event("system_type", "choose_a_button", None)
            /\ UNCHANGED <<conv, user_data>>
       ELSE /\ user_data' = [user_data EXCEPT !.system_type = system_map(t),
                                              !.system_text = Some(t)]
            /\ conv' = [conv EXCEPT ![c] = "FLOORS"]
            /\ ev' = Event("system_type", "ask_floors", None)
    /\ UNCHANGED <<products, CalcVars, checked, StoreVars, calc, admin_conv>>

\* BotHandlers.floors.  The floor count is stored before the try block;
\* a key missing from user_data raises KeyError inside it, either before
\* the calculation (system_type) or after it (the confirmation text).
FloorsEntry(c, t) ==
    /\ conv[c] = "FLOORS"
    /\ LET parsed == IntOfText[t]
           verdict == validate_floors(IntVal(parsed.val))
           stored == [user_data EXCEPT !.floors = Some(parsed.val)]
           sys == user_data.system_type[1]
           rows == get_products(products, sys, 1, parsed.val)
           r == calculate_invoice(rows, parsed.val)
           call == Some([floors |-> parsed.val, system_type |-> sys,
                         fetched |-> rows, result |-> r])
       IN  IF parsed.exc # ""
           THEN /\ ev' = Event("floors", "enter_a_number", None)
                /\ UNCHANGED <<conv, user_data>>
           ELSE IF ~verdict[1]
           THEN /\ ev' = Event("floors", verdict[2], None)
                /\ UNCHANGED <<conv, user_data>>
           ELSE IF user_data.system_type = None
           THEN /\ user_data' = stored
                /\ ev' = Event("floors", "calculation_error", None)
                /\ UNCHANGED conv
           ELSE IF r.exc # ""
           THEN /\ user_data' = stored
                /\ ev' = Event("floors", "calculation_error", call)
                /\ UNCHANGED conv
           ELSE /\ user_data' = [stored EXCEPT !.calculation_result = Some(r.val)]
                /\ IF \/ user_data.customer_name = None
                      \/ user_data.project_name = None
                      \/ user_data.system_text = None
                   THEN /\ ev' = Event("floors", "calculation_error", call)
                        /\ UNCHANGED conv
                   ELSE /\ ev' = Event("floors", "confirmation", call)
                        /\ conv' = [conv EXCEPT ![c] = "CONFIRMATION"]
    /\ UNCHANGED <<products, CalcVars, checked, StoreVars, calc, admin_conv>>

\* DatabaseManager.create_invoice (created_at, a time stamp, is left out).
create_invoice(table, customer_name, project_name, system, n, total_price) ==
    Append(table,
           [id |-> Len(table) + 1, customer_name |-> customer_name,
            project_name |-> project_name, system |-> system,
            floors |-> n, total_price |-> total_price])

\* add_invoice_item leaving the total of the row at zero.
add_invoice_item_no_total(table, invoice_id, item) ==
    Append(table,
           [id |-> Len(table) + 1, invoice_id |-> invoice_id,
            product_id |-> item.product_id, name |-> item.name,
            unit |-> item.unit, quantity |-> item.quantity,
            unit_price |-> item.unit_price, total_price |-> 0])

\* DatabaseManager.add_invoice_item
add_invoice_item(table, invoice_id, item) ==
    Append(table,
           [id |-> Len(table) + 1, invoice_id |-> invoice_id,
            product_id |-> item.product_id, name |-> item.name,
            unit |-> item.unit, quantity |-> item.quantity,
            unit_price |-> item.unit_price, total_price |-> item.total_price])

\* The loop `for item in result['items']` over the first k items.
RECURSIVE SaveItems(_, _, _, _)
SaveItems(table, invoice_id, items, k) ==
    IF k = 0 THEN table
    ELSE add_invoice_item(SaveItems(table, invoice_id, items, k - 1),
                          invoice_id, items[k])

\* Where the try block of BotHandlers.confirmation may fail: a database
\* write, the rendering of the document, or its sending.
FailPoints == {"none", "create_invoice", "add_invoice_item",
               "generate_invoice", "reply_document"}

\* Every response taken as the confirming one.
IsConfirmAny(response) == TRUE

\* `if response != '1'` negated: the response that confirms.
IsConfirm(response) == response = "1"

\* BotHandlers.confirmation on a text and a failure point of the try block.
Confirmation(c, t, fail) ==
    /\ conv[c] = "CONFIRMATION"
    /\ LET response == Strip(t)
           missing == \/ user_data.calculation_result = None
                      \/ user_data.customer_name = None
                      \/ user_data.project_name = None
                      \/ user_data.system_type = None
                      \/ user_data.floors = None
           res == user_data.calculation_result[1]
           invoice_id == Len(invoices) + 1
           created == create_invoice(invoices, user_data.customer_name[1],
                          user_data.project_name[1], user_data.system_type[1],
                          user_data.floors[1], res.total_price)
       IN  IF response = "0"
           THEN /\ fail = "none"
                /\ user_data' = EmptyUserData
                /\ conv' = [conv EXCEPT ![c] = "END"]
                /\ ev' = Event("confirmation", "cancelled", None)
                /\ UNCHANGED StoreVars
           ELSE IF ~IsConfirm(response)
           THEN /\ fail = "none"
                /\ ev' = Event("confirmation", "send_1_or_0", None)
                /\ UNCHANGED <<conv, user_data, StoreVars>>
           ELSE /\ Len(invoices) < MaxInvoices
                /\ user_data' = EmptyUserData
                /\ conv' = [conv EXCEPT ![c] = "END"]
                /\ IF missing
                   THEN /\ fail = "none"
                        /\ ev' = Event("confirmation", "invoice_error", None)
                        /\ UNCHANGED StoreVars
                   ELSE IF fail = "create_invoice"
                   THEN /\ ev' = Event("confirmation", "invoice_error", None)
                        /\ UNCHANGED StoreVars
                   ELSE IF fail = "add_invoice_item"
                   THEN /\ \E k \in 1 .. Len(res.items) :
                              invoice_items' = SaveItems(invoice_items,
                                                   invoice_id, res.items, k - 1)
                        /\ invoices' = created
                        /\ ev' = Event("confirmation", "invoice_error", None)
                   ELSE /\ invoices' = created
                        /\ invoice_items' = SaveItems(invoice_items, invoice_id,
                                                res.items, Len(res.items))
                        /\ ev' = Event("confirmation", IF fail = "none" THEN "document"
                                   ELSE "invoice_error", None)
    /\ UNCHANGED <<products, CalcVars, checked, calc, admin_conv>>

\* BotHandlers.cancel, the fallback of every state.
Cancel(c) ==
    /\ conv[c] # "END"
    /\ user_data' = EmptyUserData
    /\ conv' = [conv EXCEPT ![c] = "END"]
    /\ ev' = Event("cancel", "cancelled", None)
    /\ UNCHANGED <<products, CalcVars, checked, StoreVars, calc, admin_conv>>

InitConv ==
    /\ products \in ConvCatalogs
    /\ InitCalculator
    /\ InitValidation
    /\ InitBot
    /\ InitWorkers

NextConv ==
    \E c \in Chats :
        \/ Start(c)
        \/ \E t \in NameTexts : CustomerName(c, t)
        \/ \E t \in ProjectTexts : ProjectName(c, t)
        \/ \E t \in Texts : SystemType(c, t)
        \/ \E t \in Texts : FloorsEntry(c, t)
        \/ \E t \in Texts, fail \in FailPoints : Confirmation(c, t, fail)
        \/ Cancel(c)

SpecConv == InitConv /\ [][NextConv]_vars

\* ------------------------------------- calculations and price edits
\* Calls of calculate_invoice taken apart into the catalog read, the
\* iterations of the loop and the return, with admin price edits between
\* any two of them.
ConcFloors == {1, 2}
NewPrices == {0, 5}
EditIds == {0, 1, 2}

\* UPDATE products SET price = ? without the WHERE clause.
update_product_price_all(table, product_id, new_price) ==
    [k \in DOMAIN table |-> [table[k] EXCEPT !.price = new_price]]

\* DatabaseManager.update_product_price: UPDATE ... WHERE id = ?
update_product_price(table, product_id, new_price) ==
    [k \in DOMAIN table |->
        IF table[k].id = product_id
        THEN [table[k] EXCEPT !.price = new_price]
        ELSE table[k]]

\* The row of iteration i with its price read from the catalog again.
RowReread(w, i) ==
    LET row == calc[w].rows[i]
        now == {p \in {products[k] : k \in DOMAIN products} : p.id = row.id}
    IN  IF now = {} THEN row ELSE [row EXCEPT !.price = (CHOOSE p \in now : TRUE).price]

\* `for product in products`: the row of iteration i, from the list that
\* get_products returned.
RowAt(w, i) == calc[w].rows[i]

\* calculate_invoice up to the return of get_products; snapshot records
\* the catalog as it was at this read.
BeginCall(w, n, sys) ==
    /\ calc[w].pc \in {"idle", "done"}
    /\ calc' = [calc EXCEPT ![w] =
                   [pc |-> "loop", floors |-> n, system_type |-> sys,
                    rows |-> get_products(products, sys, 1, n), i |-> 1,
                    items |-> StartItems, total_price |-> 0,
                    snapshot |-> products, result |-> NoResult]]
    /\ UNCHANGED <<products, CalcVars, checked, conv, user_data, StoreVars, ev, admin_conv>>

\* One iteration of the loop.
LoopStep(w) ==
    /\ calc[w].pc = "loop"
    /\ calc[w].i <= Len(calc[w].rows)
    /\ LET c == calc[w]
           one == InvoiceLoop(<<RowAt(w, c.i)>>, 1, c.floors, c.items,
                              c.total_price)
       IN  calc' = [calc EXCEPT ![w] =
                IF one.exc # ""
                THEN [c EXCEPT !.pc = "done", !.result = one]
                ELSE [c EXCEPT !.i = c.i + 1, !.items = one.val.items,
                               !.total_price = one.val.total_price]]
    /\ UNCHANGED <<products, CalcVars, checked, conv, user_data, StoreVars, ev, admin_conv>>

\* `return {'items': items, 'total_price': total_price}`
ReturnResult(w) ==
    /\ calc[w].pc = "loop"
    /\ calc[w].i > Len(calc[w].rows)
    /\ calc' = [calc EXCEPT ![w] =
                   [calc[w] EXCEPT !.pc = "done",
                        !.result = Ret([items |-> calc[w].items,
                                        total_price |-> calc[w].total_price])]]
    /\ UNCHANGED <<products, CalcVars, checked, conv, user_data, StoreVars, ev, admin_conv>>

\* AdminHandlers.edit_price_value writing a new price.
UpdatePrice(product_id, new_price) ==
    /\ products' = update_product_price(products, product_id, new_price)
    /\ UNCHANGED <<CalcVars, checked, conv, user_data, StoreVars, ev, calc, admin_conv>>

InitConc == InitConv

NextConc ==
    \/ \E w \in Workers, n \in ConcFloors, sys \in RequestSystems :
            BeginCall(w, n, sys)
    \/ \E w \in Workers : LoopStep(w)
    \/ \E w \in Workers : ReturnResult(w)
    \/ \E product_id \in EditIds, new_price \in NewPrices :
            UpdatePrice(product_id, new_price)

SpecConc == InitConc /\ [][NextConc]_vars

\* ---------------------------------------------------- admin conversation
\* The admin conversation of every user in one chat, side by side with the
\* invoice conversation that the listed user runs in the same chat.  Both
\* ConversationHandlers are in handler group 0, the invoice one first: a
\* text or /cancel goes to the invoice conversation while that one is
\* active, and to the admin conversation otherwise.  user_data is the
\* per-user dict of the user who got past is_admin.
AdminChat == "private"
InvoiceUser == CHOOSE u \in Users : \A v \in Users : u <= v

\* config.ADMIN_CHAT_IDS: the ids of the admins, as strings.
ADMIN_CHAT_IDS == {"11"}

\* Every user taken for an admin.
is_admin_any(user_id) == TRUE

\* AdminHandlers.is_admin
is_admin(user_id) == ToString(user_id) \in ADMIN_CHAT_IDS

MenuData == {"view_products", "edit_price", "settings", "exit"}
\* Message texts of the admin: as a product id "1 " names the first row and
\* "-5" no row; as a price "1 " and "2," are 1 and 2 and "-5" is negative.
AdminTexts == {"hidrolik", "-5", "1 ", "2,"}
AdminRange == -5 .. 5

\* int(text) of the admin texts
AdminInt(text) ==
    IF \E k \in AdminRange : ToString(k) = Strip(text)
    THEN Ret(CHOOSE k \in AdminRange : ToString(k) = Strip(text))
    ELSE Raise("ValueError")

\* text.replace(',', '').replace(' ', '') on the admin texts
RemoveSeparators(text) ==
    IF text = "2," THEN "2" ELSE IF text = "1 " THEN "1" ELSE text

ProductIdOfText == [t \in AdminTexts |-> AdminInt(t)]
PriceOfText == [t \in AdminTexts |-> AdminInt(RemoveSeparators(t))]

\* DatabaseManager.get_product_by_id: the row, or None
get_product_by_id(table, product_id) ==
    LET found == {k \in DOMAIN table : table[k].id = product_id}
    IN  IF found = {} THEN None ELSE Some(table[CHOOSE k \in found : TRUE])

\* The invoice conversation takes the update before the admin one does.
InvoiceActive(u) == u = InvoiceUser /\ conv[AdminChat] # "END"

AdminFrame == <<CalcVars, checked, conv, StoreVars, calc>>

\* AdminHandlers.admin_command, the entry point /admin.
AdminCommand(u) ==
    /\ admin_conv[u] = "END"
    /\ IF ~is_admin(u)
       THEN /\ ev' = Event("admin_command", "no_access", None)
            /\ UNCHANGED admin_conv
       ELSE /\ ev' = Event("admin_command", "menu", None)
            /\ admin_conv' = [admin_conv EXCEPT ![u] = "ADMIN_MENU"]
    /\ UNCHANGED <<products, user_data, AdminFrame>>

\* AdminHandlers.admin_menu on the callback data of a menu button, with
\* view_products and edit_price_start.
AdminMenu(u, data) ==
    /\ admin_conv[u] = "ADMIN_MENU"
    /\ IF data = "edit_price"
       THEN /\ ev' = Event("admin_menu", "ask_product_id", None)
            /\ admin_conv' = [admin_conv EXCEPT ![u] = "EDIT_PRICE_SELECT"]
       ELSE /\ ev' = Event("admin_menu", data, None)
            /\ admin_conv' = [admin_conv EXCEPT ![u] = "END"]
    /\ UNCHANGED <<products, user_data, AdminFrame>>

\* AdminHandlers.edit_price_select
EditPriceSelect(u, t) ==
    /\ admin_conv[u] = "EDIT_PRICE_SELECT"
    /\ ~InvoiceActive(u)
    /\ LET product_id == ProductIdOfText[t]
           product == get_product_by_id(products, product_id.val)
       IN  IF product_id.exc # ""
           THEN /\ ev' = Event("edit_price_select", "enter_a_number", None)
                /\ UNCHANGED <<admin_conv, user_data>>
           ELSE IF product = None
           THEN /\ ev' = Event("edit_price_select", "not_found", None)
                /\ UNCHANGED <<admin_conv, user_data>>
           ELSE /\ user_data' = [user_data EXCEPT !.edit_product = product]
                /\ admin_conv' = [admin_conv EXCEPT ![u] = "EDIT_PRICE_VALUE"]
                /\ ev' = Event("edit_price_select", "ask_new_price", None)
    /\ UNCHANGED <<products, AdminFrame>>

\* No price taken for negative.
IsNegativeNever(new_price) == FALSE

\* `if new_price < 0`
IsNegative(new_price) == new_price < 0

\* AdminHandlers.edit_price_value.  user_data['edit_product'] is read
\* outside any try block: when the key is missing the handler raises
\* KeyError, nothing is replied and the conversation keeps its state.
EditPriceValue(u, t) ==
    /\ admin_conv[u] = "EDIT_PRICE_VALUE"
    /\ ~InvoiceActive(u)
    /\ LET new_price == PriceOfText[t]
           product == user_data.edit_product[1]
           success == get_product_by_id(products, product.id) # None
       IN  IF new_price.exc # ""
           THEN /\ ev' = Event("edit_price_value", "enter_a_number", None)
                /\ UNCHANGED <<products, admin_conv, user_data>>
           ELSE IF IsNegative(new_price.val)
           THEN /\ ev' = Event("edit_price_value", "cannot_be_negative", None)
                /\ UNCHANGED <<products, admin_conv, user_data>>
           ELSE IF user_data.edit_product = None
           THEN /\ ev' = Event("edit_price_value", "KeyError", None)
                /\ UNCHANGED <<products, admin_conv, user_data>>
           ELSE /\ products' = update_product_price(products, product.id,
                                                    new_price.val)
                /\ ev' = Event("edit_price_value",
                               IF success THEN "updated" ELSE "update_failed",
                               None)
                /\ user_data' = EmptyUserData
                /\ admin_conv' = [admin_conv EXCEPT ![u] = "END"]
    /\ UNCHANGED AdminFrame

\* AdminHandlers.admin_cancel, the fallback of every state.
AdminCancel(u) ==
    /\ admin_conv[u] # "END"
    /\ ~InvoiceActive(u)
    /\ user_data' = EmptyUserData
    /\ admin_conv' = [admin_conv EXCEPT ![u] = "END"]
    /\ ev' = Event("admin_cancel", "cancelled", None)
    /\ UNCHANGED <<products, AdminFrame>>

InitAdmin == InitConv

NextAdmin ==
    \/ \E u \in Users : AdminCommand(u)
    \/ \E u \in Users, data \in MenuData : AdminMenu(u, data)
    \/ \E u \in Users, t \in AdminTexts : EditPriceSelect(u, t)
    \/ \E u \in Users, t \in AdminTexts : EditPriceValue(u, t)
    \/ \E u \in Users : AdminCancel(u)
    \/ Start(AdminChat)
    \/ \E t \in NameTexts : CustomerName(AdminChat, t)
    \/ \E t \in ProjectTexts : ProjectName(AdminChat, t)
    \/ \E t \in Texts : SystemType(AdminChat, t)
    \/ \E t \in Texts : FloorsEntry(AdminChat, t)
    \/ \E t \in Texts, fail \in FailPoints : Confirmation(AdminChat, t, fail)
    \/ Cancel(AdminChat)

SpecAdmin == InitAdmin /\ [][NextAdmin]_vars

\* ================================================================ claims
\* The last call, when there was one and it returned.
Called   == floors # 0
Returned == Called /\ result.exc = ""
Items    == result.val.items
Rows     == 1 .. Len(fetched)

\* A catalog row is applicable to the last request (spec 4.2, step 1).
Applicable(p) ==
    /\ p.is_active = 1
    /\ p.system \in {system_type, "common"}
    /\ (p.min_floors # None => p.min_floors[1] <= floors)
    /\ (p.max_floors # None => p.max_floors[1] >= floors)

ApplicableIds == {products[k].id : k \in {j \in DOMAIN products : Applicable(products[j])}}

RECURSIVE SumOfTotals(_)
SumOfTotals(its) ==
    IF its = << >> THEN 0
    ELSE Head(its).total_price + SumOfTotals(Tail(its))

\* A column's value with unset read as 0.
Value(x) == IF x = None THEN 0 ELSE x[1]

\* C1: for every catalog, floors and system type, the total_price of the
\* returned Invoice Result is the exact integer sum of its items' totals.
C1_TotalIsSumOfItems ==
    Called => /\ result.exc = ""
              /\ result.val.total_price = SumOfTotals(Items)

\* C1 witness: a result of two items, each with a total above zero.
C1_Witness ==
    /\ Returned
    /\ Len(Items) = 2
    /\ Items[1].total_price > 0
    /\ Items[2].total_price > 0
    /\ result.val.total_price = Items[1].total_price + Items[2].total_price

\* C2 as stated: every item's total_price is floor(quantity * unit_price),
\* quantity being the evaluator's quantity for the rule, also when the
\* quantity is negative or fractional.
C2_TotalIsFloor ==
    Called =>
        /\ result.exc = ""
        /\ \A i \in Rows :
              /\ Items[i].quantity = _calculate_quantity(fetched[i], floors).val
              /\ Items[i].total_price * Den <= Items[i].quantity * fetched[i].price
              /\ Items[i].quantity * fetched[i].price < (Items[i].total_price + 1) * Den

\* t is x / Den with the fraction dropped (rounded toward zero).
IsTruncation(t, x) ==
    IF x >= 0
    THEN t * Den <= x /\ x < (t + 1) * Den
    ELSE (t - 1) * Den < x /\ x <= t * Den

\* C2 amended: every item's total_price is quantity * unit_price truncated
\* toward zero (Python's int()), quantity being the evaluator's quantity for
\* the rule: the floor when the product is not negative, the ceiling when it
\* is negative.
C2_TotalIsTruncation ==
    Called =>
        /\ result.exc = ""
        /\ \A i \in Rows :
              /\ Items[i].quantity = _calculate_quantity(fetched[i], floors).val
              /\ IsTruncation(Items[i].total_price,
                              Items[i].quantity * fetched[i].price)

\* C2 witness: an item whose quantity * unit_price is negative and not a
\* whole number, billed at the ceiling of the product.
C2_Witness ==
    /\ Returned
    /\ \E i \in Rows :
          LET x == Items[i].quantity * Items[i].unit_price
          IN  /\ x < 0
              /\ x % Den # 0
              /\ Items[i].total_price = (x \div Den) + 1

\* C3: the rules billed are exactly the catalog rules that are active, of
\* the requested system or common, with min_floors unset or <= floors and
\* max_floors unset or >= floors; never an inactive rule, never a rule of
\* the other system.
C3_BilledAreTheApplicable ==
    Called =>
        /\ result.exc = ""
        /\ {Items[i].product_id : i \in DOMAIN Items} = ApplicableIds
        /\ \A k \in DOMAIN products :
              (products[k].is_active # 1
                 \/ products[k].system \notin {system_type, "common"})
              => \A i \in DOMAIN Items : Items[i].product_id # products[k].id

\* C3 witness: at floors 2 a rule with min_floors 2 is billed while a rule
\* of the other system is not.
C3_Witness ==
    /\ Returned
    /\ floors = 2
    /\ Len(products) = 2
    /\ products[1].min_floors = Some(2)
    /\ products[2].system \notin {system_type, "common"}
    /\ Len(Items) = 1
    /\ Items[1].product_id = products[1].id

\* C4: the items correspond one to one, in order, to the rows the catalog
\* query returned: as many items as rows, the i-th item carrying the id,
\* unit and price of the i-th row.
C4_ItemsFollowRetrievalOrder ==
    Called =>
        /\ result.exc = ""
        /\ Len(Items) = Len(fetched)
        /\ \A i \in Rows :
              /\ Items[i].product_id = fetched[i].id
              /\ Items[i].unit = fetched[i].unit
              /\ Items[i].unit_price = fetched[i].price

\* C4 witness: two rows that differ in nothing but their id are both
\* billed, in the order of retrieval.
C4_Witness ==
    /\ Returned
    /\ Len(fetched) = 2
    /\ [fetched[1] EXCEPT !.id = 0] = [fetched[2] EXCEPT !.id = 0]
    /\ Len(Items) = 2
    /\ Items[1].product_id = 1
    /\ Items[2].product_id = 2

\* C5: calculate_invoice never fails because of a rule: whatever the kind,
\* with factor, base_add or stops_offset unset and name_pattern absent or
\* malformed, it returns a result with one item per applicable rule.
C5_NeverFails ==
    Called => /\ result.exc = ""
              /\ Len(Items) = Cardinality(ApplicableIds)

\* C5 witness: a batch of a rule of unknown kind and a dynamic_name rule
\* with a malformed pattern, both with factor, base_add and stops_offset
\* unset, is billed in full.
C5_Witness ==
    /\ Returned
    /\ Len(fetched) = 2
    /\ fetched[1].type = "percent"
    /\ fetched[2].type = "dynamic_name"
    /\ \A i \in Rows : /\ fetched[i].factor = None
                       /\ fetched[i].base_add = None
                       /\ fetched[i].stops_offset = None
    /\ Len(Items) = 2

\* C6: a fixed rule's quantity is factor when factor > 0 and 1.0 otherwise
\* (factor 0 or unset), whatever floors and base_add are.
C6_FixedQuantity ==
    Called =>
        \A i \in Rows :
            fetched[i].type = "fixed" =>
                /\ result.exc = ""
                /\ Items[i].quantity =
                       IF Value(fetched[i].factor) > 0
                       THEN Value(fetched[i].factor) ELSE Den

\* C6 witness: a fixed rule with factor 80 and base_add 5 has quantity 80.
C6_Witness ==
    /\ Returned
    /\ Len(fetched) = 1
    /\ fetched[1].type = "fixed"
    /\ fetched[1].factor = Some(80 * Den)
    /\ fetched[1].base_add = Some(5 * Den)
    /\ floors > 1
    /\ Items[1].quantity = 80 * Den

\* C7: a linear rule's quantity is factor * floors + base_add, an unset
\* factor or base_add counting as 0.
C7_LinearQuantity ==
    Called =>
        \A i \in Rows :
            fetched[i].type = "linear" =>
                /\ result.exc = ""
                /\ Items[i].quantity =
                       Value(fetched[i].factor) * floors
                       + Value(fetched[i].base_add)

\* C7 witness: factor 4, base_add 5 and floors 5 give quantity 25.
C7_Witness ==
    /\ Returned
    /\ Len(fetched) = 1
    /\ fetched[1].type = "linear"
    /\ fetched[1].factor = Some(4 * Den)
    /\ fetched[1].base_add = Some(5 * Den)
    /\ floors = 5
    /\ Items[1].quantity = 25 * Den

\* C8: a dynamic_name rule's quantity is factor * floors + base_add when
\* factor > 0, and 1.0 when factor is 0, negative or unset.
C8_DynamicNameQuantity ==
    Called =>
        \A i \in Rows :
            fetched[i].type = "dynamic_name" =>
                /\ result.exc = ""
                /\ Items[i].quantity =
                       IF Value(fetched[i].factor) > 0
                       THEN Value(fetched[i].factor) * floors
                            + Value(fetched[i].base_add)
                       ELSE Den

\* C8 witness: a dynamic_name rule with a negative factor and base_add 5
\* has quantity 1.0.
C8_Witness ==
    /\ Returned
    /\ Len(fetched) = 1
    /\ fetched[1].type = "dynamic_name"
    /\ fetched[1].factor = Some(-3)
    /\ fetched[1].base_add = Some(5 * Den)
    /\ Items[1].quantity = Den

\* The quantity the evaluator gives the same rule were its kind linear.
QuantityAsLinear(p) ==
    _calculate_quantity([p EXCEPT !.type = "linear"], floors)

\* C9 as stated: a dynamic_name rule's quantity is that of a linear rule
\* with the same factor and base_add, for every factor, base_add, floors.
C9_DynamicNameSameAsLinear ==
    Called =>
        \A i \in Rows :
            fetched[i].type = "dynamic_name" =>
                /\ result.exc = ""
                /\ Items[i].quantity = QuantityAsLinear(fetched[i]).val

\* C9 amended: a dynamic_name rule's quantity is that of a linear rule with
\* the same factor and base_add for every base_add and floors when
\* factor > 0.
C9_SameAsLinearForPositiveFactor ==
    Called =>
        \A i \in Rows :
            (fetched[i].type = "dynamic_name" /\ Value(fetched[i].factor) > 0)
            => /\ result.exc = ""
               /\ Items[i].quantity = QuantityAsLinear(fetched[i]).val

\* C9 witness: a dynamic_name rule with factor 0.5 and base_add 5 at
\* floors 3 has the linear quantity 6.5.
C9_Witness ==
    /\ Returned
    /\ Len(fetched) = 1
    /\ fetched[1].type = "dynamic_name"
    /\ fetched[1].factor = Some(2)
    /\ fetched[1].base_add = Some(5 * Den)
    /\ floors = 3
    /\ Items[1].quantity = 6 + 5 * Den
    /\ QuantityAsLinear(fetched[1]) = Ret(6 + 5 * Den)

\* C10: a rule whose kind is none of fixed, linear, dynamic_name has
\* quantity 1.0 for every floors, factor and base_add, and evaluating it
\* does not fail.
C10_UnknownKindQuantity ==
    Called =>
        \A i \in Rows :
            fetched[i].type \notin {"fixed", "linear", "dynamic_name"} =>
                /\ result.exc = ""
                /\ Items[i].quantity = Den

\* C10 witness: a rule of kind percent with factor 4 and base_add 5 has
\* quantity 1.0.
C10_Witness ==
    /\ Returned
    /\ Len(fetched) = 1
    /\ fetched[1].type = "percent"
    /\ fetched[1].factor = Some(4 * Den)
    /\ fetched[1].base_add = Some(5 * Den)
    /\ Items[1].quantity = Den

\* The text a pattern stands for with stops, floors and N filled in: a
\* placeholder of any other key, and a lone $, stay as written; $$ is $.
RECURSIVE Rendered(_, _, _)
Rendered(pattern, stops, n) ==
    IF pattern = << >> THEN ""
    ELSE LET t == Head(pattern)
             piece ==
                 CASE t.kind \in {"named", "braced"} /\ t.key = "stops" ->
                        ToString(stops)
                   [] t.kind \in {"named", "braced"}
                         /\ t.key \in {"floors", "N"} -> ToString(n)
                   [] t.kind = "escaped" -> "$"
                   [] OTHER -> t.text
         IN  piece \o Rendered(Tail(pattern), stops, n)

PatternPresent(p) == p.name_pattern # None /\ p.name_pattern # Some(<< >>)

IsPlaceholder(t) == t.kind \in {"named", "braced"}

HasUnknownKey(p) ==
    /\ PatternPresent(p)
    /\ \E k \in DOMAIN p.name_pattern[1] :
          /\ IsPlaceholder(p.name_pattern[1][k])
          /\ p.name_pattern[1][k].key \notin {"stops", "floors", "N"}

\* C11: the display name is the name_pattern with stops replaced by
\* floors + stops_offset (unset offset: 0) and floors and N replaced by
\* floors exactly when the kind is dynamic_name and the pattern is present;
\* in every other case it is the base name unchanged.
C11_DisplayName ==
    Called =>
        /\ result.exc = ""
        /\ \A i \in Rows :
              Items[i].name =
                  IF fetched[i].type = "dynamic_name" /\ PatternPresent(fetched[i])
                  THEN Rendered(fetched[i].name_pattern[1],
                                floors + Value(fetched[i].stops_offset), floors)
                  ELSE fetched[i].name

\* C11 witness: pattern "X ${stops} stops", stops_offset 1 and floors 5
\* give the name "X 6 stops".
C11_Witness ==
    /\ Returned
    /\ Len(fetched) = 1
    /\ fetched[1].type = "dynamic_name"
    /\ fetched[1].name_pattern = Some(<<Lit("X "), Braced("stops"), Lit(" stops")>>)
    /\ fetched[1].stops_offset = Some(1)
    /\ floors = 5
    /\ Items[1].name = "X 6 stops"

\* The pattern with every placeholder of an unknown key made literal text.
Literalised(pattern) ==
    [k \in DOMAIN pattern |->
        IF IsPlaceholder(pattern[k]) /\ pattern[k].key \notin {"stops", "floors", "N"}
        THEN Lit(pattern[k].text)
        ELSE pattern[k]]

\* C12: a placeholder other than stops, floors and N in a dynamic_name
\* rule's pattern does not make evaluation fail and is left in the name as
\* written, the known placeholders of the pattern still being substituted:
\* the name is that of the same pattern with the token as literal text.
C12_UnknownPlaceholderStays ==
    Called =>
        \A i \in Rows :
            (fetched[i].type = "dynamic_name" /\ HasUnknownKey(fetched[i]))
            => /\ result.exc = ""
               /\ Items[i].name =
                     _get_final_name(
                         [fetched[i] EXCEPT
                             !.name_pattern = Some(Literalised(@[1]))],
                         floors).val

\* C12 witness: pattern "$N/${floor}$" at floors 3 gives "3/${floor}$".
C12_Witness ==
    /\ Returned
    /\ Len(fetched) = 1
    /\ fetched[1].type = "dynamic_name"
    /\ fetched[1].name_pattern =
           Some(<<Named("N"), Lit("/"), Braced("floor"), Invalid>>)
    /\ floors = 3
    /\ Items[1].name = "3/${floor}$"

\* C13 as stated: a dynamic_name rule whose pattern references an undefined
\* or mistyped key never raises and gets the rule's base name.
C13_MalformedGivesBaseName ==
    Called =>
        \A i \in Rows :
            (fetched[i].type = "dynamic_name" /\ HasUnknownKey(fetched[i]))
            => /\ result.exc = ""
               /\ Items[i].name = fetched[i].name

\* C13 amended: a dynamic_name rule whose pattern references an undefined
\* or mistyped key never raises, and its name is the pattern with the known
\* placeholders substituted and the undefined one left as written.
C13_MalformedKeepsPlaceholder ==
    Called =>
        \A i \in Rows :
            (fetched[i].type = "dynamic_name" /\ HasUnknownKey(fetched[i]))
            => /\ result.exc = ""
               /\ Items[i].name =
                     Rendered(fetched[i].name_pattern[1],
                              floors + Value(fetched[i].stops_offset), floors)

\* C13 witness: the rule named "jack" with the mistyped key floor and an
\* unset offset is billed at floors 2 under the name "2/${floor}$".
C13_Witness ==
    /\ Returned
    /\ \E i \in Rows :
          /\ fetched[i].type = "dynamic_name"
          /\ fetched[i].name = "jack"
          /\ HasUnknownKey(fetched[i])
          /\ fetched[i].stops_offset = None
          /\ floors = 2
          /\ Items[i].name = "2/${floor}$"

\* A Python value is an integer (an int, or a bool, which is one).
IsInteger(x) == x.type \in {"int", "bool"}

\* C14: validate_floors accepts exactly the integers n with 1 <= n <= 100,
\* with an empty reason, and rejects with a non-empty reason 0, 101, every
\* other integer and every value that is not an integer.
C14_ValidateFloors ==
    checked # NoCheck =>
        IF IsInteger(checked.arg) /\ 1 <= checked.arg.v /\ checked.arg.v <= 100
        THEN checked.out = <<TRUE, "">>
        ELSE checked.out[1] = FALSE /\ checked.out[2] # ""

\* C14 witness: 100 has been accepted.
C14_Witness ==
    /\ checked.arg = IntVal(100)
    /\ checked.out = <<TRUE, "">>

InvalidEntries ==
    {t \in Texts :
        \A k \in MinValidFloors .. MaxValidFloors : ToString(k) # Strip(t)}
InvalidEntry(t) == t \in InvalidEntries

Reasons == {"enter_a_number", "must be at least 1", "cannot exceed 100"}

\* C15: calculate_invoice is called only by the floors handler, on a floor
\* count that passed validation; a non-numeric or out-of-range entry in
\* state FLOORS is answered with a reason, makes no call (hence no catalog
\* read), leaves the stored data (floors and calculation result among
\* them) unchanged and keeps the chat in FLOORS.
C15_CalculationOnlyAfterValidation ==
    [][/\ (ev' # ev /\ ev'.call # None)
            => /\ ev'.handler = "floors"
               /\ ev'.call[1].floors \in MinValidFloors .. MaxValidFloors
       /\ \A c \in Chats, t \in Texts :
            (conv[c] = "FLOORS" /\ ev'.handler = "floors" /\ FloorsEntry(c, t))
              => /\ ev'.call # None
                    => (~InvalidEntry(t) /\ ToString(ev'.call[1].floors) = Strip(t))
                 /\ InvalidEntry(t)
                    => /\ ev'.call = None
                       /\ ev'.reply \in Reasons
                       /\ user_data' = user_data
                       /\ conv' = conv
                       /\ conv'[c] = "FLOORS"]_vars

\* An out-of-range entry was just rejected while a floor count and a
\* calculation result are stored.
C15_Witness ==
    /\ ev.handler = "floors"
    /\ ev.reply \in {"must be at least 1", "cannot exceed 100"}
    /\ \E c \in Chats : conv[c] = "FLOORS"
    /\ user_data.floors # None
    /\ user_data.calculation_result # None

\* The two keyboard buttons of the system type question.
Buttons == {"hidrolik", "girles"}

\* C16: calculate_invoice is called only with system_type hydraulic or
\* gearless, and only such a system type is ever stored; a selection other
\* than the two buttons keeps the chat in SYSTEM_TYPE, stores nothing and
\* calls nothing.
C16_OnlyRequestSystems ==
    [][/\ ev'.call # None => ev'.call[1].system_type \in RequestSystems
       /\ user_data'.system_type \in {None} \cup {Some(x) : x \in RequestSystems}
       /\ \A c \in Chats, t \in Texts \ Buttons :
            (conv[c] = "SYSTEM_TYPE" /\ ev'.handler = "system_type"
                /\ SystemType(c, t))
              => /\ conv' = conv
                 /\ conv'[c] = "SYSTEM_TYPE"
                 /\ user_data' = user_data
                 /\ ev'.call = None]_vars

\* A selection was just rejected and no system type is stored.
C16_Witness ==
    /\ ev.handler = "system_type"
    /\ ev.reply = "choose_a_button"
    /\ \E c \in Chats : conv[c] = "SYSTEM_TYPE"
    /\ user_data.system_type = None
    /\ user_data.project_name # None

EmptyResult == [items |-> << >>, total_price |-> 0]

NamesStored ==
    /\ user_data.customer_name # None
    /\ user_data.project_name # None
    /\ user_data.system_text # None

\* C17: a call of calculate_invoice for which the catalog has no applicable
\* rule returns the empty Invoice Result (no items, total 0) and no error;
\* the floors handler stores it and moves the chat to CONFIRMATION exactly
\* when it does so for a result with items, that is, when the names the
\* confirmation text shows are stored.
C17_EmptyResultIsNoError ==
    [][\A c \in Chats, t \in Texts :
         (conv[c] = "FLOORS" /\ ev'.handler = "floors" /\ ev'.call # None
             /\ FloorsEntry(c, t))
           => /\ ev'.call[1].fetched = << >>
                 => /\ ev'.call[1].result = Ret(EmptyResult)
                    /\ user_data'.calculation_result = Some(EmptyResult)
              /\ ev'.call[1].result.exc = ""
                 => /\ NamesStored <=> conv'[c] = "CONFIRMATION"
                    /\ NamesStored <=> ev'.reply = "confirmation"]_vars

\* The chat reached CONFIRMATION with the empty result stored.
C17_Witness ==
    /\ ev.call # None
    /\ ev.call[1].fetched = << >>
    /\ ev.reply = "confirmation"
    /\ user_data.calculation_result = Some(EmptyResult)
    /\ \E c \in Chats : conv[c] = "CONFIRMATION"

\* The persisted items of invoice id, in the order of their insertion.
ItemsOf(table, id) == SelectSeq(table, LAMBDA row : row.invoice_id = id)

SameLine(row, item) ==
    /\ row.product_id = item.product_id
    /\ row.name = item.name
    /\ row.unit = item.unit
    /\ row.quantity = item.quantity
    /\ row.unit_price = item.unit_price
    /\ row.total_price = item.total_price

\* C20: a confirmation that ends by sending the document has added one
\* invoice, whose total_price is that of the stored Invoice Result, and one
\* item row per line item of that result with the line item's product_id,
\* name, unit, quantity, unit_price and total_price, the rows persisted
\* before being kept; the total of the new invoice is the sum of the totals
\* of its item rows.
C20_ConfirmedInvoicePersisted ==
    [][(ev'.handler = "confirmation" /\ ev'.reply = "document" /\ ev' # ev)
         => LET res == user_data.calculation_result[1]
                new == invoices'[Len(invoices')]
                rows == ItemsOf(invoice_items', new.id)
            IN  /\ user_data.calculation_result # None
                /\ Len(invoices') = Len(invoices) + 1
                /\ SubSeq(invoices', 1, Len(invoices)) = invoices
                /\ new.id \notin {invoices[k].id : k \in DOMAIN invoices}
                /\ new.total_price = res.total_price
                /\ Len(invoice_items') = Len(invoice_items) + Len(res.items)
                /\ SubSeq(invoice_items', 1, Len(invoice_items)) = invoice_items
                /\ Len(rows) = Len(res.items)
                /\ \A j \in DOMAIN rows : SameLine(rows[j], res.items[j])
                /\ new.total_price = SumOfTotals(rows)]_vars

\* A document was sent for an invoice of two items.
C20_Witness ==
    /\ ev.handler = "confirmation"
    /\ ev.reply = "document"
    /\ Len(invoices) >= 1
    /\ Len(ItemsOf(invoice_items, invoices[Len(invoices)].id)) = 2
    /\ invoices[Len(invoices)].total_price > 0

\* ------------------------------------- calculations and price edits
PriceIn(table, id) ==
    (CHOOSE p \in {table[k] : k \in DOMAIN table} : p.id = id).price

\* C19: every finished calculation returned what calculate_invoice gives
\* when run atomically on the catalog as it was at the call's one read,
\* whatever price edits and steps of other calculations came in between:
\* each item carries the unit price of that catalog and the total computed
\* from it, and the total is the sum of the item totals; a running
\* calculation works on the rows of that read.
C19_ResultOfTheSnapshot ==
    \A w \in Workers :
        LET c == calc[w]
        IN  /\ c.pc \in {"loop", "done"}
                => c.rows = get_products(c.snapshot, c.system_type, 1, c.floors)
            /\ c.pc = "done"
                => /\ c.result = calculate_invoice(c.rows, c.floors)
                   /\ c.result.exc = ""
                        => /\ \A j \in DOMAIN c.result.val.items :
                                LET item == c.result.val.items[j]
                                IN  /\ item.unit_price
                                         = PriceIn(c.snapshot, item.product_id)
                                    /\ item.total_price
                                         = ItemTotal(item.quantity, item.unit_price)
                           /\ c.result.val.total_price
                                = SumOfTotals(c.result.val.items)

\* A calculation returned two items although the price of the second row
\* was changed after the read, and the other calculation is under way on
\* another state of the catalog.
C19_Witness ==
    \E w \in Workers, v \in Workers :
        /\ calc[w].pc = "done"
        /\ Len(calc[w].result.val.items) = 2
        /\ calc[w].result.val.items[2].unit_price
              # PriceIn(products, calc[w].result.val.items[2].product_id)
        /\ calc[v].pc = "loop"
        /\ calc[v].snapshot # calc[w].snapshot

\* ------------------------------------------ what reaches the invoice store
StoreWritten == invoices' # invoices \/ invoice_items' # invoice_items

\* C22: the invoices and invoice_items tables change only in a step of the
\* confirmation handler on the response '1' (the text with surrounding
\* blanks stripped) in state CONFIRMATION while a calculation result is
\* stored; the response '0' ends the conversation, any other response
\* keeps CONFIRMATION, /cancel ends the conversation from every state, and
\* none of the three writes a row.
C22_StoreWrittenOnlyOnConfirm ==
    [][/\ StoreWritten
            => /\ ev'.handler = "confirmation"
               /\ user_data.calculation_result # None
               /\ \E c \in Chats, t \in Texts :
                    /\ conv[c] = "CONFIRMATION"
                    /\ Strip(t) = "1"
                    /\ \E fail \in FailPoints : Confirmation(c, t, fail)
       /\ \A c \in Chats :
            /\ (conv[c] # "END" /\ ev'.handler = "cancel" /\ Cancel(c))
                 => (conv'[c] = "END" /\ ~StoreWritten)
            /\ \A t \in Texts :
                 (conv[c] = "CONFIRMATION" /\ ev'.handler = "confirmation"
                     /\ Strip(t) # "1" /\ Confirmation(c, t, "none"))
                   => /\ ~StoreWritten
                      /\ Strip(t) = "0" => conv'[c] = "END"
                      /\ Strip(t) # "0" => conv' = conv]_vars

\* An invoice is stored, and a conversation was just ended at the
\* confirmation question without one being added.
C22_Witness ==
    /\ ev.handler = "confirmation"
    /\ ev.reply = "cancelled"
    /\ Len(invoices) = 1
    /\ \A c \in Chats : conv[c] = "END"

\* The total calculate_invoice gives for a system and a floor count on the
\* catalog (which the conversations never change).
TotalFor(sys, n) ==
    calculate_invoice(get_products(products, sys, 1, n), n).val.total_price

\* C24: every persisted invoice carries the total the calculator computes
\* for that invoice's persisted system and floors.
C24_InvoicesSelfConsistent ==
    \A k \in DOMAIN invoices :
        invoices[k].total_price = TotalFor(invoices[k].system, invoices[k].floors)

\* C26: a confirmation step that ends with the error reply leaves the
\* invoices and invoice_items tables as they were before the step.
C26_FailedConfirmationWritesNothing ==
    [][(ev'.handler = "confirmation" /\ ev'.reply = "invoice_error")
          => ~StoreWritten]_vars

\* ---------------------------------------------------- admin conversation
NegativePrice(t) == PriceOfText[t].exc = "" /\ PriceOfText[t].val < 0

\* C21: from a catalog with non-negative prices, every price stays a
\* non-negative integer through all admin conversations; a negative new
\* price is answered with a rejection, writes nothing and keeps the
\* conversation in EDIT_PRICE_VALUE.
C21_PricesStayNonNegative ==
    /\ [](\A k \in DOMAIN products : products[k].price \in Nat)
    /\ [][\A u \in Users, t \in AdminTexts :
            (admin_conv[u] = "EDIT_PRICE_VALUE"
                /\ ev'.handler = "edit_price_value"
                /\ NegativePrice(t) /\ EditPriceValue(u, t))
              => /\ products' = products
                 /\ admin_conv'[u] = "EDIT_PRICE_VALUE"
                 /\ ev'.reply = "cannot_be_negative"]_vars

\* A negative price was just rejected, after an edit that went through.
C21_Witness ==
    /\ ev.handler = "edit_price_value"
    /\ ev.reply = "cannot_be_negative"
    /\ \E u \in Users : admin_conv[u] = "EDIT_PRICE_VALUE"
    /\ products \notin ConvCatalogs
    /\ user_data.edit_product # None

Listed(u) == ToString(u) \in ADMIN_CHAT_IDS

\* C23: the admin conversation of a user whose id is not in ADMIN_CHAT_IDS
\* is never in ADMIN_MENU, EDIT_PRICE_SELECT or EDIT_PRICE_VALUE: /admin
\* from such a user is answered with the refusal and ends at once; and a
\* price changes only in a step of edit_price_value taken in the admin
\* conversation of a listed user.
C23_OnlyAdminsEditPrices ==
    /\ [](\A u \in Users : Listed(u) \/ admin_conv[u] = "END")
    /\ [][/\ \A u \in Users :
               (~Listed(u) /\ admin_conv[u] = "END"
                   /\ ev'.handler = "admin_command" /\ AdminCommand(u))
                 => (admin_conv'[u] = "END" /\ ev'.reply = "no_access")
          /\ products' # products
               => /\ ev'.handler = "edit_price_value"
                  /\ \E u \in Users, t \in AdminTexts :
                        /\ Listed(u)
                        /\ admin_conv[u] = "EDIT_PRICE_VALUE"
                        /\ EditPriceValue(u, t)]_vars

\* A user who is not listed was just refused, after a price was edited.
C23_Witness ==
    /\ ev.handler = "admin_command"
    /\ ev.reply = "no_access"
    /\ products \notin ConvCatalogs
    /\ \A u \in Users : admin_conv[u] = "END"

ValidPrice(t) == PriceOfText[t].exc = "" /\ PriceOfText[t].val >= 0

\* C25: whenever edit_price_value receives a valid non-negative price in
\* state EDIT_PRICE_VALUE, user_data still holds the product selected in
\* EDIT_PRICE_SELECT, and the step ends the conversation.
C25_SelectedProductStillStored ==
    [][\A u \in Users, t \in AdminTexts :
         (admin_conv[u] = "EDIT_PRICE_VALUE"
             /\ ev'.handler = "edit_price_value"
             /\ ValidPrice(t) /\ EditPriceValue(u, t))
           => /\ user_data.edit_product # None
              /\ admin_conv'[u] = "END"]_vars

RejectedId(t) ==
    \/ ProductIdOfText[t].exc # ""
    \/ \A k \in DOMAIN products : products[k].id # ProductIdOfText[t].val

\* The rows of other products, and the selected row with the price left out.
WithoutPrice(row) == [f \in DOMAIN row \ {"price"} |-> row[f]]

\* C27: a product id that is not a number or names no product keeps
\* EDIT_PRICE_SELECT, a price that is not a number keeps EDIT_PRICE_VALUE,
\* and neither changes the catalog or the stored selection; an accepted
\* price changes the price of the selected product to the new price and
\* nothing else in the catalog.
C27_AdminEditFrame ==
    [][\A u \in Users, t \in AdminTexts :
         /\ (admin_conv[u] = "EDIT_PRICE_SELECT"
                /\ ev'.handler = "edit_price_select"
                /\ RejectedId(t) /\ EditPriceSelect(u, t))
              => /\ products' = products
                 /\ admin_conv' = admin_conv
                 /\ user_data' = user_data
         /\ (admin_conv[u] = "EDIT_PRICE_VALUE"
                /\ ev'.handler = "edit_price_value"
                /\ PriceOfText[t].exc # "" /\ EditPriceValue(u, t))
              => /\ products' = products
                 /\ admin_conv' = admin_conv
                 /\ user_data' = user_data
         /\ (admin_conv[u] = "EDIT_PRICE_VALUE"
                /\ ev'.handler = "edit_price_value"
                /\ ev'.reply = "updated" /\ EditPriceValue(u, t))
              => /\ DOMAIN products' = DOMAIN products
                 /\ \A k \in DOMAIN products :
                      IF products[k].id = user_data.edit_product[1].id
                      THEN /\ products'[k].price = PriceOfText[t].val
                           /\ WithoutPrice(products'[k])
                                = WithoutPrice(products[k])
                      ELSE products'[k] = products[k]]_vars

\* A price edit was just accepted; the other product has its first price.
C27_Witness ==
    /\ ev.handler = "edit_price_value"
    /\ ev.reply = "updated"
    /\ Len(products) = 2
    /\ products[1].price = 2
    /\ products[2].price = RowJack.price

====
